---- MODULE Spec2Model ----
(***************************************************************************)
(* Model of script_tumblr.py: the publish pipeline that reads RSS feeds,   *)
(* extracts image URLs, and relays the ones not yet in the dedup file to   *)
(* a Telegram chat, one at a time.                                         *)
(*                                                                         *)
(* Strings are sequences of one-character strings, so that str.strip(),    *)
(* str.lower(), str.endswith() and the line iteration of a text file are   *)
(* computed as Python computes them.                                       *)
(***************************************************************************)
EXTENDS Integers, Sequences, FiniteSets, TLC

\* ------------------------------------------------------------------ bounds

\* Most feeds listed in the feeds file.
MaxFeeds == 2

\* Most entries over all the feeds of one configuration.
MaxEntries == 2

\* Most RetryAfter answers the server gives during one run.
MaxRetry == 1

\* ------------------------------------------------------------- characters

NL == "\n"

Whitespace == {" ", NL, "\t", "\r"}

\* ------------------------------------------------------- string functions

RECURSIVE lstrip(_)
lstrip(s) ==
    IF s = <<>> THEN <<>>
    ELSE IF Head(s) \in Whitespace THEN lstrip(Tail(s)) ELSE s

RECURSIVE rstrip(_)
rstrip(s) ==
    IF s = <<>> THEN <<>>
    ELSE IF s[Len(s)] \in Whitespace THEN rstrip(SubSeq(s, 1, Len(s) - 1)) ELSE s

\* str.strip(): leading and trailing whitespace removed.
strip(s) == rstrip(lstrip(s))

lower_char(c) ==
    CASE c = "A" -> "a" [] c = "B" -> "b" [] c = "E" -> "e" [] c = "F" -> "f"
      [] c = "G" -> "g" [] c = "H" -> "h" [] c = "I" -> "i" [] c = "J" -> "j"
      [] c = "M" -> "m" [] c = "N" -> "n" [] c = "P" -> "p" [] c = "T" -> "t"
      [] OTHER -> c

\* str.lower()
lower(s) == [i \in 1..Len(s) |-> lower_char(s[i])]

\* str.endswith(suffix)
endswith(s, suffix) ==
    /\ Len(suffix) <= Len(s)
    /\ SubSeq(s, Len(s) - Len(suffix) + 1, Len(s)) = suffix

\* The tuple of suffixes of line 102.
ImageSuffixes ==
    { <<".", "p", "n", "g">>, <<".", "j", "p", "g">>,
      <<".", "j", "p", "e", "g">>, <<".", "g", "i", "f">> }

\* Reading in text mode (newline=None): "\r\n" and "\r" arrive as "\n".
RECURSIVE universal_newlines(_)
universal_newlines(data) ==
    IF data = <<>> THEN <<>>
    ELSE IF Head(data) = "\r"
         THEN IF Len(data) >= 2 /\ data[2] = NL
              THEN <<NL>> \o universal_newlines(Tail(Tail(data)))
              ELSE <<NL>> \o universal_newlines(Tail(data))
         ELSE <<Head(data)>> \o universal_newlines(Tail(data))

\* Iteration over a text file: the lines, each with its terminator, the last
\* one possibly without.
RECURSIVE file_lines(_, _)
file_lines(data, cur) ==
    IF data = <<>> THEN (IF cur = <<>> THEN <<>> ELSE <<cur>>)
    ELSE IF Head(data) = NL
         THEN <<Append(cur, NL)>> \o file_lines(Tail(data), <<>>)
         ELSE file_lines(Tail(data), Append(cur, Head(data)))

\* ------------------------------------------------------------ dedup store

\* A file is [exists, data]: data is its text.
NoFile == [exists |-> FALSE, data |-> <<>>]

load_published_images(f) ==
    IF ~f.exists THEN {}
    ELSE LET lines == file_lines(universal_newlines(f.data), <<>>)
         IN  { strip(lines[i]) : i \in { j \in 1..Len(lines) : strip(lines[j]) # <<>> } }

\* Mutant: the line is written without its terminator.
append_without_newline(f, img_url) ==
    [exists |-> TRUE, data |-> f.data \o img_url]

append_published_image(f, img_url) ==
    [exists |-> TRUE, data |-> f.data \o img_url \o <<NL>>]

\* -------------------------------------------------------- image extractor

\* A tag of an entry's description: its name and its src / href attribute.
NoAttr == [has |-> FALSE, value |-> <<>>]
Attr(v) == [has |-> TRUE, value |-> v]
Tag(name, src, href) == [name |-> name, src |-> src, href |-> href]

\* The URLs one tag contributes (lines 97-104).
tag_images(tag) ==
    IF tag.name = "img" /\ tag.src.has
    THEN <<tag.src.value>>
    ELSE IF tag.name = "a" /\ tag.href.has
         THEN IF \E suf \in ImageSuffixes : endswith(lower(tag.href.value), suf)
              THEN <<tag.href.value>>
              ELSE <<>>
         ELSE <<>>

RECURSIVE description_images(_)
description_images(tags) ==
    IF tags = <<>> THEN <<>>
    ELSE tag_images(Head(tags)) \o description_images(Tail(tags))

\* An entry is [description]: a sequence of tags; the empty sequence stands for
\* a missing or empty description, which line 93 skips.
RECURSIVE extract_images(_)
extract_images(entries) ==
    IF entries = <<>> THEN <<>>
    ELSE description_images(Head(entries).description)
             \o extract_images(Tail(entries))

\* ----------------------------------------------------------------- inputs

\* Image URLs as they stand in the feeds: "a.gif", "b.GIF", and " a.gif" with a
\* leading blank inside the attribute value.
UrlA == <<"a", ".", "g", "i", "f">>
UrlB == <<"b", ".", "G", "I", "F">>
UrlC == <<" ", "a", ".", "g", "i", "f">>
PageLink == <<"p", ".", "h", "t", "m">>

Urls == {UrlA, UrlB, UrlC}

Entry(tags) == [description |-> tags]

\* <img src="a.gif">
EntryA == Entry(<<Tag("img", Attr(UrlA), NoAttr)>>)
\* <a href="b.GIF">link</a><a href="p.htm">not image</a>
EntryB == Entry(<<Tag("a", NoAttr, Attr(UrlB)), Tag("a", NoAttr, Attr(PageLink))>>)
\* <img src=" a.gif">
EntryC == Entry(<<Tag("img", Attr(UrlC), NoAttr)>>)
\* an entry without description
EntryNone == Entry(<<>>)

\* The entries the bounded feed configurations are made of.
EntrySet == {EntryA, EntryB, EntryC}

SeqsUpTo(S, n) == UNION { [1..k -> S] : k \in 0..n }

RECURSIVE TotalLen(_)
TotalLen(ss) == IF ss = <<>> THEN 0 ELSE Len(Head(ss)) + TotalLen(Tail(ss))

\* One feed whose extraction is [A, B, B, C]; its second entry has no
\* description.
FeedABBC == <<EntryA, EntryNone, EntryB, EntryB, EntryC>>

\* The sequences of exactly f feeds, each with an entry at least, with at most
\* n entries in all.
RECURSIVE FeedsOf(_, _)
FeedsOf(f, n) ==
    IF f = 0 THEN { <<>> }
    ELSE UNION { { <<e>> \o c : c \in FeedsOf(f - 1, n - Len(e)) } :
                     e \in SeqsUpTo(EntrySet, n) \ { <<>> } }

\* What the feeds of the feeds file serve: at most MaxFeeds feeds with at most
\* MaxEntries entries in all; one feed without entries; and the one-feed
\* configuration FeedABBC.
FeedConfigs ==
    UNION { FeedsOf(f, MaxEntries) : f \in 0..MaxFeeds }
        \cup { << <<>> >>, <<FeedABBC>> }

\* The dedup file before the run: absent, or as an earlier run left it after
\* recording one URL.
InitialFiles == {NoFile} \cup { append_published_image(NoFile, u) : u \in Urls }

\* bot_token and chat_id as read_config returns them (stripped).
SettingsSet ==
    { [bot_token |-> "t", chat_id |-> "c"],
      [bot_token |-> "", chat_id |-> "c"],
      [bot_token |-> "t", chat_id |-> ""] }

\* Settings.delay_between_posts: the fallback of line 53.
delay_between_posts == 5

\* RetryAfter.retry_after values the server answers with.
RetryAfterValues == {3, 4}

\* ------------------------------------------------------------------ state

VARIABLES
    settings,          \* Settings: bot_token, chat_id
    feedDocs,          \* what each feed of rss_feeds serves (its entries)
    file,              \* published_images_file on disk
    published_images,  \* run(): the in-memory set
    pc,                \* where run() / send_images() stands
    feedIdx,           \* index of rss_feed in rss_feeds
    images,            \* send_images(): the images of the current feed
    imgIdx,            \* index of img_url in images
    retries,           \* history: RetryAfter answers so far in this run
    sleeping,          \* seconds of the asyncio.sleep in progress
    trace,             \* history: what this run did, in order
    file0,             \* history: the dedup file as this run found it
    loaded,            \* history: the set load_published_images returned
    first              \* history: how the first run ended, and its trace

vars == <<settings, feedDocs, file, published_images, pc, feedIdx, images,
          imgIdx, retries, sleeping, trace, file0, loaded, first>>

hist == <<file0, loaded, first>>

img_url == images[imgIdx]

Event(ev, url, n) == [ev |-> ev, feed |-> feedIdx, idx |-> imgIdx, url |-> url, n |-> n]

NoFirst == [ended |-> "none", trace |-> <<>>, file |-> NoFile]

Init ==
    /\ settings \in SettingsSet
    /\ feedDocs \in FeedConfigs
    /\ file \in InitialFiles
    /\ published_images = {}
    /\ pc = "start"
    /\ feedIdx = 0
    /\ images = <<>>
    /\ imgIdx = 0
    /\ retries = 0
    /\ sleeping = 0
    /\ trace = <<>>
    /\ file0 = file
    /\ loaded = {}
    /\ first = NoFirst

\* ---------------------------------------------------------------- actions

\* run(), lines 153-169: validate the settings, read the feeds file, load the
\* dedup store.
StartRun ==
    /\ pc = "start"
    /\ IF settings.bot_token = "" \/ settings.chat_id = ""
       THEN /\ pc' = "raised"
            /\ trace' = Append(trace, Event("fatal", <<>>, 0))
            /\ UNCHANGED <<published_images, feedIdx, loaded>>
       ELSE IF feedDocs = <<>>
            THEN /\ pc' = "done"
                 /\ UNCHANGED <<published_images, feedIdx, trace, loaded>>
            ELSE /\ published_images' = load_published_images(file)
                 /\ loaded' = load_published_images(file)
                 /\ feedIdx' = 1
                 /\ pc' = "feeds"
                 /\ UNCHANGED trace
    /\ UNCHANGED <<settings, feedDocs, file, images, imgIdx, retries, sleeping,
                   file0, first>>

\* parse_rss_feed: the feed's entries, or none when the fetch or the parse
\* fails (feedparser returns a document without entries).
parse_rss_feed(i, fetched) == IF fetched THEN feedDocs[i] ELSE <<>>

\* run(), lines 170-172: the next feed is fetched and its images extracted.
ParseFeed ==
    /\ pc = "feeds"
    /\ feedIdx <= Len(feedDocs)
    /\ \E fetched \in BOOLEAN :
          /\ images' = extract_images(parse_rss_feed(feedIdx, fetched))
          /\ trace' = Append(trace, [Event("feed", <<>>, 0) EXCEPT
                 !.idx = 0,
                 !.url = extract_images(parse_rss_feed(feedIdx, fetched)),
                 !.n = IF fetched THEN 1 ELSE 0])
    /\ imgIdx' = 1
    /\ pc' = "images"
    /\ UNCHANGED <<settings, feedDocs, file, published_images, feedIdx, retries,
                   sleeping, hist>>

\* run(), line 183: no feed is left.
RunCompleted ==
    /\ pc = "feeds"
    /\ feedIdx > Len(feedDocs)
    /\ pc' = "done"
    /\ UNCHANGED <<settings, feedDocs, file, published_images, feedIdx, images,
                   imgIdx, retries, sleeping, trace, hist>>

\* Mutant: the membership test is dropped.
already_published_unchecked(u) == FALSE

\* send_images, line 131: is the image already published?
already_published(u) == u \in published_images

\* send_images, lines 130-136: the next image is skipped, or send_photo is
\* called for it.
NextImage ==
    /\ pc = "images"
    /\ imgIdx <= Len(images)
    /\ IF already_published(img_url)
       THEN /\ trace' = Append(trace, Event("skip", img_url, 0))
            /\ imgIdx' = imgIdx + 1
            /\ pc' = "images"
       ELSE /\ trace' = Append(trace, Event("send", img_url, 0))
            /\ imgIdx' = imgIdx
            /\ pc' = "send"
    /\ UNCHANGED <<settings, feedDocs, file, published_images, feedIdx, images,
                   retries, sleeping, hist>>

\* send_images returns: the images of the feed are exhausted.
FeedExhausted ==
    /\ pc = "images"
    /\ imgIdx > Len(images)
    /\ feedIdx' = feedIdx + 1
    /\ pc' = "feeds"
    /\ UNCHANGED <<settings, feedDocs, file, published_images, images, imgIdx,
                   retries, sleeping, trace, hist>>

\* send_photo returns (lines 136-139).
SendSucceeded ==
    /\ pc = "send"
    /\ trace' = Append(trace, Event("ok", img_url, 0))
    /\ pc' = "record"
    /\ UNCHANGED <<settings, feedDocs, file, published_images, feedIdx, images,
                   imgIdx, retries, sleeping, hist>>

\* Mutant: the URL is not added to the in-memory set.
add_published_forgotten(S, u) == S

\* Line 141: the URL joins the in-memory set.
add_published(S, u) == S \cup {u}

\* Mutant: no inter-post sleep; the loop goes on at once.
after_record_no_pause == "images"

\* Where send_images stands after the delivery is recorded (line 142).
after_record == "pace"

\* Lines 140-142: the URL is appended to the file and added to the set, and the
\* inter-post sleep starts.
RecordPublished ==
    /\ pc = "record"
    /\ file' = append_published_image(file, img_url)
    /\ published_images' = add_published(published_images, img_url)
    /\ trace' = Append(trace, Event("record", img_url, 0))
    /\ sleeping' = delay_between_posts
    /\ pc' = after_record
    /\ UNCHANGED <<settings, feedDocs, feedIdx, images, imgIdx, retries, hist>>

\* Line 140 raises (mkdir or open fails with OSError): no handler of the try
\* statement matches, and the exception leaves send_images and run.
RecordFailed ==
    /\ pc = "record"
    /\ trace' = Append(trace, Event("record_failed", img_url, 0))
    /\ pc' = "raised"
    /\ UNCHANGED <<settings, feedDocs, file, published_images, feedIdx, images,
                   imgIdx, retries, sleeping, hist>>

\* Lines 142-143: the inter-post sleep is over; break.
PaceDone ==
    /\ pc = "pace"
    /\ trace' = Append(trace, Event("paced", img_url, sleeping))
    /\ sleeping' = 0
    /\ imgIdx' = imgIdx + 1
    /\ pc' = "images"
    /\ UNCHANGED <<settings, feedDocs, file, published_images, feedIdx, images,
                   retries, hist>>

\* Mutant: no sleep after RetryAfter; the loop goes on at once.
after_retry_after_no_sleep == "images"

\* Where send_images stands after a RetryAfter (line 146).
after_retry_after == "backoff"

\* Lines 144-146: send_photo raises RetryAfter; sleep for exc.retry_after.
SendRetryAfter ==
    /\ pc = "send"
    /\ retries < MaxRetry
    /\ \E n \in RetryAfterValues :
          /\ trace' = Append(trace, Event("retry_after", img_url, n))
          /\ sleeping' = n
    /\ retries' = retries + 1
    /\ pc' = after_retry_after
    /\ UNCHANGED <<settings, feedDocs, file, published_images, feedIdx, images,
                   imgIdx, hist>>

\* Line 146 returns and the while loop calls send_photo for the same image.
BackoffDone ==
    /\ pc = "backoff"
    /\ trace' = Append(Append(trace, Event("waited", img_url, sleeping)),
                       Event("send", img_url, 0))
    /\ sleeping' = 0
    /\ pc' = "send"
    /\ UNCHANGED <<settings, feedDocs, file, published_images, feedIdx, images,
                   imgIdx, retries, hist>>

\* Mutant: no break; the same image is taken again.
after_error_no_break(i) == i

\* The image the for loop turns to after the break of line 149.
after_error(i) == i + 1

\* Lines 147-149: send_photo raises another TelegramError; break.
SendFailed ==
    /\ pc = "send"
    /\ trace' = Append(trace, Event("error", img_url, 0))
    /\ imgIdx' = after_error(imgIdx)
    /\ pc' = "images"
    /\ UNCHANGED <<settings, feedDocs, file, published_images, feedIdx, images,
                   retries, sleeping, hist>>

send_images ==
    \/ NextImage
    \/ SendSucceeded
    \/ RecordPublished
    \/ RecordFailed
    \/ PaceDone
    \/ SendRetryAfter
    \/ BackoffDone
    \/ SendFailed
    \/ FeedExhausted

run == StartRun \/ ParseFeed \/ send_images \/ RunCompleted

Next == run

Spec == Init /\ [][Next]_vars

\* ------------------------------------------------- a second run, a crash

Ended == pc \in {"done", "raised", "killed"}

\* The process is terminated (killed) wherever it stands.
Crash ==
    /\ ~Ended
    /\ pc' = "killed"
    /\ UNCHANGED <<settings, feedDocs, file, published_images, feedIdx, images,
                   imgIdx, retries, sleeping, trace, hist>>

\* The script is started again after its first run: a new process, the same
\* feeds and the dedup file as the first run left it.
Restart ==
    /\ Ended
    /\ first.ended = "none"
    /\ first' = [ended |-> pc, trace |-> trace, file |-> file]
    /\ file0' = file
    /\ loaded' = {}
    /\ published_images' = {}
    /\ pc' = "start"
    /\ feedIdx' = 0
    /\ images' = <<>>
    /\ imgIdx' = 0
    /\ retries' = 0
    /\ sleeping' = 0
    /\ trace' = <<>>
    /\ UNCHANGED <<settings, feedDocs, file>>

NextTwoRuns == run \/ Crash \/ Restart

\* The two-run behaviours start from the bounded feed configurations.
InitTwoRuns == Init /\ TotalLen(feedDocs) <= MaxEntries

SpecTwoRuns == InitTwoRuns /\ [][NextTwoRuns]_vars

\* ------------------------------------------------------- reading the trace

Idx == 1..Len(trace)

\* The places of the events of one kind, and of some kinds.
Ev(e) == { i \in Idx : trace[i].ev = e }
EvIn(S) == { i \in Idx : trace[i].ev \in S }

SamePos(e1, e2) == e1.feed = e2.feed /\ e1.idx = e2.idx

\* The in-memory set as it stood before event i: what was loaded and what the
\* run recorded before i.
PublishedAt(i) ==
    loaded \cup { trace[j].url : j \in { k \in Ev("record") : k < i } }

\* The URLs of the send_photo calls of a trace, in order.
RECURSIVE Attempts(_)
Attempts(t) ==
    IF t = <<>> THEN <<>>
    ELSE IF Head(t).ev = "send" THEN <<Head(t).url>> \o Attempts(Tail(t))
         ELSE Attempts(Tail(t))

\* A sequence with each run of equal neighbours merged into one element.
RECURSIVE Collapse(_)
Collapse(q) ==
    IF Len(q) <= 1 THEN q
    ELSE IF q[1] = q[2] THEN Collapse(Tail(q))
         ELSE <<q[1]>> \o Collapse(Tail(q))

IsPrefix(p, q) == Len(p) <= Len(q) /\ SubSeq(q, 1, Len(p)) = p

\* The text the record events of the trace append to the file, from event i on.
RECURSIVE RecordedTextFrom(_)
RecordedTextFrom(i) ==
    IF i > Len(trace) THEN <<>>
    ELSE IF trace[i].ev = "record"
         THEN trace[i].url \o <<NL>> \o RecordedTextFrom(i + 1)
         ELSE RecordedTextFrom(i + 1)

RecordedText == RecordedTextFrom(1)

EventUrls(t, ev) == { t[i].url : i \in { k \in 1..Len(t) : t[k].ev = ev } }

\* ------------------------------------------------------------------- C1
\* C1: send_photo is never called for a URL that is in the in-memory published
\* set when the loop reaches it; the image is skipped and no send_photo call
\* is ever made for that occurrence.
C1_NoSendOfPublished ==
    /\ published_images = PublishedAt(Len(trace) + 1)
    /\ \A i \in Ev("send") : trace[i].url \notin PublishedAt(i)
    /\ \A i \in Ev("skip") :
          /\ trace[i].url \in PublishedAt(i)
          /\ \A j \in Ev("send") : ~SamePos(trace[j], trace[i])

\* An image found in the loaded store was skipped and another image was sent.
C1_Witness ==
    /\ \E i \in Ev("skip") : trace[i].url \in loaded
    /\ Ev("ok") # {}

\* ------------------------------------------------------------------- C3
\* C3: within a run no URL is sent successfully twice, and no send_photo call
\* is made for a URL after its successful send (later occurrences are
\* skipped); for the extraction [A, B, B, C] and an empty store the calls go
\* A, B, C in this order: exactly these three when every call succeeds, and
\* with nothing but repetitions of the same URL in between otherwise.
C3_NoDuplicateInRun ==
    /\ \A i \in Ev("ok") :
          \A j \in EvIn({"send", "ok", "skip"}) :
              (i < j /\ trace[j].url = trace[i].url) => trace[j].ev = "skip"
    /\ (feedDocs = <<FeedABBC>> /\ loaded = {}) =>
          LET att == Attempts(trace)
              calm == EvIn({"error", "retry_after"}) = {}
              fetched == \E i \in Ev("feed") : trace[i].n = 1
          IN  /\ IsPrefix(Collapse(att), <<UrlA, UrlB, UrlC>>)
              /\ calm => IsPrefix(att, <<UrlA, UrlB, UrlC>>)
              /\ (pc = "done" /\ fetched) => Collapse(att) = <<UrlA, UrlB, UrlC>>

\* The run over [A, B, B, C] completed with the calls A, B, C and the second B
\* skipped.
C3_Witness ==
    /\ feedDocs = <<FeedABBC>>
    /\ loaded = {}
    /\ pc = "done"
    /\ Attempts(trace) = <<UrlA, UrlB, UrlC>>
    /\ \E i \in Ev("skip") : trace[i].url = UrlB /\ trace[i].idx = 3

\* ------------------------------------------------------------------- C6
\* C6: a URL is appended to the file and added to the set only directly after
\* send_photo succeeded for it in this run, and before the next send_photo
\* call; so the set holds only loaded URLs and URLs sent in this run, and the
\* file is the file the run found plus one line per recorded URL.
C6_RecordOrdering ==
    /\ \A i \in Ev("record") :
          /\ i > 1
          /\ trace[i - 1].ev = "ok"
          /\ trace[i - 1].url = trace[i].url
          /\ SamePos(trace[i - 1], trace[i])
    /\ \A i \in Ev("ok") :
          \A j \in Ev("send") :
              i < j => (i + 1 < j /\ trace[i + 1].ev = "record")
    /\ published_images = loaded \cup EventUrls(trace, "record")
    /\ published_images \subseteq loaded \cup EventUrls(trace, "ok")
    /\ file.data = file0.data \o RecordedText

\* A delivery was recorded and a later image was then sent.
C6_Witness ==
    \E i \in Ev("record") :
        \E j \in Ev("send") : i < j /\ trace[i].url \notin loaded

C7_FailedUrlNeverRetried ==
    \A i \in Ev("error") :
        \A j \in EvIn({"send", "record"}) :
            i < j => trace[j].url # trace[i].url

\* C7 as amended: the failure ends that occurrence of the image: nothing is
\* recorded for it, no further call is made for it, and the loop goes on with
\* the next image; a later occurrence of the same URL is a new image, skipped
\* only when the URL has been recorded in between.
C7_FailedOccurrenceIsTerminal ==
    \A i \in Ev("error") :
        /\ \A j \in Idx :
              SamePos(trace[j], trace[i]) =>
                  /\ j <= i
                  /\ trace[j].ev \in {"send", "retry_after", "waited", "error"}
        /\ trace[i].url \notin PublishedAt(i + 1)
        /\ IF i = Len(trace)
           THEN \/ pc = "images" /\ feedIdx = trace[i].feed
                                 /\ imgIdx = trace[i].idx + 1
                \/ pc \in {"feeds", "done"} /\ feedIdx = trace[i].feed + 1
           ELSE \/ trace[i + 1].feed = trace[i].feed
                      /\ trace[i + 1].idx = trace[i].idx + 1
                \/ trace[i + 1].feed = trace[i].feed + 1
        /\ \A j \in Ev("skip") :
              (i < j /\ trace[j].url = trace[i].url) =>
                  \E k \in Ev("record") :
                      i < k /\ k < j /\ trace[k].url = trace[i].url

\* A send failed, and the same URL, occurring again, was sent again.
C7_Witness ==
    \E i \in Ev("error") :
        \E j \in Ev("send") :
            /\ i < j
            /\ trace[j].url = trace[i].url
            /\ ~SamePos(trace[i], trace[j])

\* ------------------------------------------------------------------- C8
ValidSettings == settings.bot_token # "" /\ settings.chat_id # ""

\* C8: once the settings are validated, no failure of a feed, of a send or of
\* recording a delivery leaves run(): the run never ends by an exception.
C8_NoFailureLeavesRun == ValidSettings => pc # "raised"

\* ------------------------------------------------------------------- C9
\* The images of the feeds this run has fetched, as positions.
Fetched == Ev("feed")

TerminalEvents(f, k) ==
    { i \in EvIn({"skip", "record", "error"}) :
          trace[i].feed = f /\ trace[i].idx = k }

\* C9: with finitely many RetryAfter answers the run comes to its end only by
\* completing, every image of every feed having exactly one outcome (skipped,
\* delivered and recorded, or failed).
C9_RunCompletesEveryImage ==
    (ValidSettings /\ pc \in {"done", "raised"}) =>
        /\ pc = "done"
        /\ \A f \in 1..Len(feedDocs) :
              \E i \in Fetched :
                  /\ trace[i].feed = f
                  /\ \A k \in 1..Len(trace[i].url) :
                        Cardinality(TerminalEvents(f, k)) = 1

\* ------------------------------------------------------------------ C10
\* C10: after every recorded delivery the engine sleeps delay_between_posts
\* before anything else, so that a pause lies between a successful send and any
\* later send_photo call, also across feeds; the pause follows nothing but a
\* recorded delivery (none after a skip or a failed send).
C10_Pacing ==
    /\ \A i \in Ev("record") :
          IF i = Len(trace)
          THEN pc = "pace" /\ sleeping = delay_between_posts
          ELSE /\ trace[i + 1].ev = "paced"
               /\ trace[i + 1].n = delay_between_posts
               /\ SamePos(trace[i + 1], trace[i])
    /\ \A i \in Ev("paced") : i > 1 /\ trace[i - 1].ev = "record"
    /\ \A i \in Ev("ok") :
          \A j \in Ev("send") :
              i < j => \E k \in Ev("paced") : i < k /\ k < j
    /\ pc = "pace" => (trace # <<>> /\ trace[Len(trace)].ev = "record")

\* Two images of different feeds were sent, with the pause in between.
C10_Witness ==
    \E i, j \in Ev("ok") :
        /\ i < j
        /\ trace[i].feed # trace[j].feed
        /\ \E k \in Ev("paced") :
              i < k /\ k < j /\ trace[k].n = delay_between_posts

\* ------------------------------------------------------------------- C2
\* A run that completed with every image skipped, or sent and recorded, and
\* every feed fetched.
CleanRun(ended, t) ==
    /\ ended = "done"
    /\ \A i \in 1..Len(t) :
          /\ t[i].ev \notin {"error", "record_failed", "fatal"}
          /\ t[i].ev = "feed" => t[i].n = 1

\* C2: after a first run that completed with every extracted URL skipped or
\* sent and recorded, a second run over the same feeds, which reloads the
\* dedup file, calls send_photo for no image.
C2_SecondRunSendsNothing ==
    CleanRun(first.ended, first.trace) =>
        Ev("send") = {}

\* ------------------------------------------------------------------- C5
\* C5: after a first run that was killed, the next run delivers again at most
\* the one image that was sent but not yet recorded; every URL recorded before
\* the kill is in the loaded store and is not sent again; the file only grows.
C5_CrashSafe ==
    first.ended = "killed" =>
        LET t1 == first.trace
            recorded1 == EventUrls(t1, "record")
            inflight == IF t1 # <<>> /\ t1[Len(t1)].ev = "ok"
                        THEN {t1[Len(t1)].url} ELSE {}
        IN  /\ (EventUrls(t1, "ok") \cap EventUrls(trace, "ok")) \subseteq inflight
            /\ trace # <<>> => recorded1 \subseteq loaded
            /\ recorded1 \cap EventUrls(trace, "send") = {}
            /\ IsPrefix(first.file.data, file.data)

====
